---- MODULE Spec2Model ----
(***************************************************************************)
(* Live game scoring of the basketball-stats application: the GameDetail   *)
(* page (pages/GameDetail.tsx), its useGameTimer hook, and the persisted   *)
(* AppState it saves to (store/storage.ts through contexts/AppContext.tsx).*)
(*                                                                         *)
(* One action per event handler.  A handler runs to completion on the      *)
(* state of the last render, so an action reads the unprimed variables and *)
(* writes the primed ones.  uuidv4() is a fresh number, the empty id ''    *)
(* is 0.  The in-memory Map playerId -> PlayerStats is a function; its     *)
(* iteration order (insertion order in the code) is taken to be the order  *)
(* of the player ids, which no handler observes except as the order of the *)
(* records appended to the persisted array.                                *)
(***************************************************************************)
EXTENDS Integers, FiniteSets, Sequences, TLC

VARIABLES
    state,           \* AppContext state: the persisted AppState
    playerStats,     \* GameDetail: Map<playerId, PlayerStats> of this view
    onCourtPlayers,  \* GameDetail: Set<playerId>
    onTickRef,       \* useGameTimer: the on-court set the callback in onTickRef.current closes over
    pendingTicks,    \* React: the handleTimerTick updaters queued and not yet rendered
    hasChanges,      \* GameDetail: dirty flag
    timeLeft,        \* useGameTimer: seconds left in the quarter
    isRunning,       \* useGameTimer
    currentQuarter,  \* useGameTimer
    quarterMinutes,  \* useGameTimer
    intervalRef,     \* useGameTimer: TRUE iff intervalRef.current holds a handle
    liveIntervals,   \* browser: the setInterval timers created and not cleared
    viewOpen,        \* router: TRUE iff the GameDetail page of the game is mounted
    nextUuid,        \* the next value uuidv4() returns
    budget,          \* operations left to explore in this behaviour
    opLog,           \* history: the last operation and what it found
    runLog           \* history: the clock run since the last start

vars == <<state, playerStats, pendingTicks, onCourtPlayers, onTickRef, hasChanges, timeLeft,
          isRunning, currentQuarter, quarterMinutes, intervalRef, liveIntervals,
          viewOpen, nextUuid, budget, opLog, runLog>>

\* What the program itself holds (everything but the exploration budget and
\* the two history variables).
progVars == <<state, playerStats, pendingTicks, onCourtPlayers, onTickRef, hasChanges, timeLeft,
              isRunning, currentQuarter, quarterMinutes, intervalRef,
              liveIntervals, viewOpen, nextUuid>>

timerVars == <<timeLeft, isRunning, currentQuarter, quarterMinutes, intervalRef,
               liveIntervals>>

-----------------------------------------------------------------------------
(* Bounds of the exploration *)

ScoreOps == 2       \* operations per behaviour of the scoring specification
FieldOps == 2       \* operations per behaviour of the field-edit specification
LineupOps == 2      \* operations per behaviour of the lineup specification
QuarterOps == 1     \* operations besides start and tick per behaviour of the quarter specification
QuarterWindow == 1  \* seconds into the quarter during which those operations happen
FrameOps == 2       \* scoring operations before the non-scoring one of the frame specification
StoreOps == 2       \* deletes per behaviour of the store specification
ClockOps == 4       \* operations per behaviour of the clock specification
ClockTail == 2      \* the clock specification also starts this many seconds or fewer before 0:00
SessionOps == 5     \* operations per behaviour of the session specification
RenderOps == 3      \* operations per behaviour of the render specification
CountdownOps == 2   \* user operations per behaviour of the countdown specification
CountdownWindow == 1 \* seconds from either end of the quarter in which those operations happen

(* Program constants *)

MaxOnCourt == 5             \* togglePlayerOnCourt: currentTeamOnCourt.length >= 5
InitialMinutes == 12        \* useGameTimer(12, handleTimerTick)
SecondsPerMinute == 60      \* initialMinutes * 60
LastQuarter == 4            \* nextQuarter: currentQuarter < 4

gameId == "g1"
homeTeamId == "H"
awayTeamId == "A"

Max(a, b) == IF a >= b THEN a ELSE b

-----------------------------------------------------------------------------
(* types/index.ts *)

MadeFields == {"twoPointsMade", "threePointsMade", "freeThrowsMade"}
AttemptedFields == {"twoPointsAttempted", "threePointsAttempted", "freeThrowsAttempted"}
OtherFields == {"offensiveRebounds", "defensiveRebounds", "assists", "steals",
                "blocks", "turnovers", "fouls"}
\* GameDetail statFields: the thirteen counters with -, input and + controls
statFields == MadeFields \cup AttemptedFields \cup OtherFields
\* every field updateStat is called with (statFields and the minutes controls)
EditableFields == statFields \cup {"minutes"}
\* every counter of a record except plusMinus
CounterFields == EditableFields \cup {"points"}

createEmptyPlayerStats(gId, pId, tId) ==
    [id |-> 0, gameId |-> gId, playerId |-> pId, teamId |-> tId,
     points |-> 0,
     twoPointsMade |-> 0, twoPointsAttempted |-> 0,
     threePointsMade |-> 0, threePointsAttempted |-> 0,
     freeThrowsMade |-> 0, freeThrowsAttempted |-> 0,
     offensiveRebounds |-> 0, defensiveRebounds |-> 0,
     assists |-> 0, steals |-> 0, blocks |-> 0, turnovers |-> 0, fouls |-> 0,
     minutes |-> 0, plusMinus |-> 0]

-----------------------------------------------------------------------------
(* contexts/AppContext.tsx: lookups on the persisted state *)

getGameById(st, gId) == CHOOSE g \in {st.games[i] : i \in 1..Len(st.games)} : g.id = gId

getPlayersByTeamId(st, tId) == {p \in st.players : p.teamId = tId}

game == getGameById(state, gameId)
homePlayers == getPlayersByTeamId(state, game.homeTeamId)
awayPlayers == getPlayersByTeamId(state, game.awayTeamId)
Roster == {p.id : p \in homePlayers \cup awayPlayers}
TeamOf(pId) == (CHOOSE p \in state.players : p.id = pId).teamId

\* AppState with one game between H and A and the given rosters (player ids)
NewAppState(homeIds, awayIds, status) ==
    [teams |-> {homeTeamId, awayTeamId},
     players |-> {[id |-> i, teamId |-> homeTeamId] : i \in homeIds}
                 \cup {[id |-> i, teamId |-> awayTeamId] : i \in awayIds},
     games |-> <<[id |-> gameId, homeTeamId |-> homeTeamId,
                  awayTeamId |-> awayTeamId, homeScore |-> 0, awayScore |-> 0,
                  date |-> "d1", location |-> "", status |-> status]>>,
     playerStats |-> <<>>]

-----------------------------------------------------------------------------
(* pages/GameDetail.tsx: pure parts of the handlers *)

getPlayerStat(stats, pId, tId) ==
    IF pId \in DOMAIN stats THEN stats[pId]
    ELSE createEmptyPlayerStats(gameId, pId, tId)

\* new Map(stats).set(pId, rec)
MapSet(stats, pId, rec) ==
    [q \in DOMAIN stats \cup {pId} |-> IF q = pId THEN rec ELSE stats[q]]

calcPoints(stat) ==
    stat.twoPointsMade * 2 + stat.threePointsMade * 3 + stat.freeThrowsMade

\* the number of players of team tId that are on court
currentTeamOnCourt(court, tId) ==
    {p \in (IF tId = game.homeTeamId THEN homePlayers ELSE awayPlayers) : p.id \in court}

\* a slip: > where the code has >=
lineupFull_OffByOne(court, tId) == Cardinality(currentTeamOnCourt(court, tId)) > MaxOnCourt

\* togglePlayerOnCourt, line 261: the team already has five on court
lineupFull(court, tId) == Cardinality(currentTeamOnCourt(court, tId)) >= MaxOnCourt

\* a slip: an attempt weighs like a make
pointValue_Attempts(field) ==
    IF field \in {"twoPointsMade", "twoPointsAttempted"} THEN 2
    ELSE IF field \in {"threePointsMade", "threePointsAttempted"} THEN 3
    ELSE IF field \in {"freeThrowsMade", "freeThrowsAttempted"} THEN 1
    ELSE 0

\* value of the made counter a shot type raises, and its attempted counter
pointValue(field) ==
    IF field = "twoPointsMade" THEN 2
    ELSE IF field = "threePointsMade" THEN 3
    ELSE IF field = "freeThrowsMade" THEN 1
    ELSE 0

\* a slip: the scorer, when on court, is counted in the loop and again afterwards
propagatePlusMinus_ScorerTwice(newStats, court, pId, tId, delta) ==
    [q \in DOMAIN newStats |->
        IF q = pId
        THEN [newStats[q] EXCEPT !.plusMinus = @ + (IF q \in court THEN 2 * delta ELSE delta)]
        ELSE IF q \in court THEN
            IF newStats[q].teamId = tId
            THEN [newStats[q] EXCEPT !.plusMinus = @ + delta]
            ELSE [newStats[q] EXCEPT !.plusMinus = @ - delta]
        ELSE newStats[q]]

\* updateStat lines 325-356 and quickScore lines 424-455: every on-court player
\* other than the scorer that has a record gets +delta (same team as the
\* scorer) or -delta (other team); then the scorer's own record gets +delta.
propagatePlusMinus(newStats, court, pId, tId, delta) ==
    [q \in DOMAIN newStats |->
        IF q = pId THEN [newStats[q] EXCEPT !.plusMinus = @ + delta]
        ELSE IF q \in court THEN
            IF newStats[q].teamId = tId
            THEN [newStats[q] EXCEPT !.plusMinus = @ + delta]
            ELSE [newStats[q] EXCEPT !.plusMinus = @ - delta]
        ELSE newStats[q]]

\* a slip: points are recomputed for the field goals but not for free throws
updatedStat_FreeThrowStale(stats, pId, tId, field, value, uuid) ==
    LET currentStat == getPlayerStat(stats, pId, tId)
        newValue == Max(0, value)
        withField == [currentStat EXCEPT !.id = IF @ # 0 THEN @ ELSE uuid,
                                         ![field] = newValue]
    IN  IF field \in {"twoPointsMade", "threePointsMade"}
        THEN [withField EXCEPT !.points = calcPoints(withField)]
        ELSE withField

\* a slip: the value is written without Math.max(0, value)
updatedStat_NoClamp(stats, pId, tId, field, value, uuid) ==
    LET currentStat == getPlayerStat(stats, pId, tId)
        withField == [currentStat EXCEPT !.id = IF @ # 0 THEN @ ELSE uuid,
                                         ![field] = value]
    IN  IF field \in MadeFields
        THEN [withField EXCEPT !.points = calcPoints(withField)]
        ELSE withField

\* updateStat lines 295-320: the edited player's record
updatedStat(stats, pId, tId, field, value, uuid) ==
    LET currentStat == getPlayerStat(stats, pId, tId)
        newValue == Max(0, value)
        withField == [currentStat EXCEPT !.id = IF @ # 0 THEN @ ELSE uuid,
                                         ![field] = newValue]
    IN  IF field \in MadeFields
        THEN [withField EXCEPT !.points = calcPoints(withField)]
        ELSE withField

\* a slip: the difference of the made counts is not weighted by the point value
pointsDelta_Unweighted(stats, pId, tId, field, value) ==
    IF field \in {"twoPointsMade", "threePointsMade", "freeThrowsMade"}
    THEN Max(0, value) - (IF pId \in DOMAIN stats THEN stats[pId][field] ELSE 0)
    ELSE 0

\* updateStat lines 299-306
pointsDelta(stats, pId, tId, field, value) ==
    (Max(0, value) - getPlayerStat(stats, pId, tId)[field]) * pointValue(field)

\* a slip: plus/minus is propagated only when points were gained
updateStatMap_GainOnly(stats, court, pId, tId, field, value, uuid) ==
    LET newStats == MapSet(stats, pId, updatedStat(stats, pId, tId, field, value, uuid))
        delta == pointsDelta(stats, pId, tId, field, value)
    IN  IF delta > 0 THEN propagatePlusMinus(newStats, court, pId, tId, delta)
        ELSE newStats

\* updateStat: the Map handed to setPlayerStats
updateStatMap(stats, court, pId, tId, field, value, uuid) ==
    LET newStats == MapSet(stats, pId, updatedStat(stats, pId, tId, field, value, uuid))
        delta == pointsDelta(stats, pId, tId, field, value)
    IN  IF delta # 0 THEN propagatePlusMinus(newStats, court, pId, tId, delta)
        ELSE newStats

\* parseInt(e.target.value) || 0 : an input is either not a number or an integer
parseIntOrZero(input) == IF input.nan THEN 0 ELSE input.n

\* quickScore lines 388-413: the shot types
ShotTypes == {"2pt_made", "2pt_miss", "3pt_made", "3pt_miss", "ft_made", "ft_miss"}
MadeTypes == {"2pt_made", "3pt_made", "ft_made"}
madeFieldOf(type) ==
    IF type \in {"2pt_made", "2pt_miss"} THEN "twoPointsMade"
    ELSE IF type \in {"3pt_made", "3pt_miss"} THEN "threePointsMade"
    ELSE "freeThrowsMade"
attemptedFieldOf(type) ==
    IF type \in {"2pt_made", "2pt_miss"} THEN "twoPointsAttempted"
    ELSE IF type \in {"3pt_made", "3pt_miss"} THEN "threePointsAttempted"
    ELSE "freeThrowsAttempted"
pointsScored(type) == IF type \in MadeTypes THEN pointValue(madeFieldOf(type)) ELSE 0

\* a slip: a made shot raises the made counter only
scoredStat_MadeOnly(stats, pId, tId, type, uuid) ==
    LET currentStat == getPlayerStat(stats, pId, tId)
        withId == [currentStat EXCEPT !.id = IF @ # 0 THEN @ ELSE uuid]
        counted == IF type \in MadeTypes
                   THEN [withId EXCEPT ![madeFieldOf(type)] = @ + 1]
                   ELSE [withId EXCEPT ![attemptedFieldOf(type)] = @ + 1]
    IN  [counted EXCEPT !.points = calcPoints(counted)]

\* quickScore lines 380-419: the shooter's record
scoredStat(stats, pId, tId, type, uuid) ==
    LET currentStat == getPlayerStat(stats, pId, tId)
        withId == [currentStat EXCEPT !.id = IF @ # 0 THEN @ ELSE uuid]
        attempted == [withId EXCEPT ![attemptedFieldOf(type)] = @ + 1]
        counted == IF type \in MadeTypes
                   THEN [attempted EXCEPT ![madeFieldOf(type)] = @ + 1]
                   ELSE attempted
    IN  [counted EXCEPT !.points = calcPoints(counted)]

\* quickScore: the Map handed to setPlayerStats
quickScoreMap(stats, court, pId, tId, type, uuid) ==
    LET newStats == MapSet(stats, pId, scoredStat(stats, pId, tId, type, uuid))
    IN  IF pointsScored(type) > 0
        THEN propagatePlusMinus(newStats, court, pId, tId, pointsScored(type))
        ELSE newStats

\* a slip: every record accrues, on court or not
accrueCourtTime_All(stats, court) ==
    [q \in DOMAIN stats |-> [stats[q] EXCEPT !.minutes = @ + 1]]

\* handleTimerTick lines 173-192: one second for every on-court player with a record
accrueCourtTime(stats, court) ==
    [q \in DOMAIN stats |->
        IF q \in court THEN [stats[q] EXCEPT !.minutes = @ + 1] ELSE stats[q]]

\* liveScores lines 224-235 and handleSave lines 497-505
teamScore(stats, tId) ==
    LET RECURSIVE sum(_)
        sum(S) == IF S = {} THEN 0
                  ELSE LET q == CHOOSE x \in S : TRUE
                       IN  stats[q].points + sum(S \ {q})
    IN  sum({q \in DOMAIN stats : stats[q].teamId = tId})

-----------------------------------------------------------------------------
(* store/storage.ts *)

\* Array.from(playerStats.values())
statsArray(stats) ==
    LET RECURSIVE arr(_)
        arr(S) == IF S = {} THEN <<>>
                  ELSE LET q == CHOOSE x \in S : \A y \in S : x <= y
                       IN  <<stats[q]>> \o arr(S \ {q})
    IN  arr(DOMAIN stats)

\* findIndex((ps) => ps.id === id): the first index, 0 when there is none
findIndexById(seq, id) ==
    IF \E i \in 1..Len(seq) : seq[i].id = id
    THEN CHOOSE i \in 1..Len(seq) : seq[i].id = id /\ \A j \in 1..(i - 1) : seq[j].id # id
    ELSE 0

\* a slip: every record is appended, none replaced
saveMultiplePlayerStats_AppendOnly(st, array) ==
    [st EXCEPT !.playerStats = @ \o array]

saveMultiplePlayerStats(st, array) ==
    LET RECURSIVE put(_, _)
        put(acc, k) ==
            IF k > Len(array) THEN acc
            ELSE LET i == findIndexById(acc, array[k].id)
                 IN  put(IF i > 0 THEN [acc EXCEPT ![i] = array[k]]
                         ELSE Append(acc, array[k]), k + 1)
    IN  [st EXCEPT !.playerStats = put(st.playerStats, 1)]

saveGame(st, g) ==
    LET i == findIndexById(st.games, g.id)
    IN  [st EXCEPT !.games = IF i > 0 THEN [st.games EXCEPT ![i] = g]
                             ELSE Append(st.games, g)]

\* array.filter(keep)
Filter(seq, keep(_)) == SelectSeq(seq, keep)

deleteTeam(st, tId) ==
    [st EXCEPT !.teams = {t \in @ : t # tId},
               !.players = {q \in @ : q.teamId # tId}]

\* a slip: the statistics are filtered by the record's own id
deletePlayer_ByStatsId(st, pId) ==
    LET keep(ps) == ps.id # pId
    IN  [st EXCEPT !.players = {q \in @ : q.id # pId},
                   !.playerStats = Filter(@, keep)]

deletePlayer(st, pId) ==
    LET keep(ps) == ps.playerId # pId
    IN  [st EXCEPT !.players = {q \in @ : q.id # pId},
                   !.playerStats = Filter(@, keep)]

deleteGame(st, gId) ==
    LET keepGame(g) == g.id # gId
        keep(ps) == ps.gameId # gId
    IN  [st EXCEPT !.games = Filter(@, keepGame),
                   !.playerStats = Filter(@, keep)]

\* getStatsByGameId (AppContext) and initialStatsMap (GameDetail lines 155-169):
\* the persisted records of the game keyed by player, a later record of the
\* same player replacing an earlier one
getStatsByGameId(st, gId) ==
    LET keep(ps) == ps.gameId = gId IN Filter(st.playerStats, keep)

initialStatsMap(st, gId) ==
    LET arr == getStatsByGameId(st, gId)
        last(q) == CHOOSE i \in 1..Len(arr) :
                      arr[i].playerId = q /\ \A j \in (i + 1)..Len(arr) : arr[j].playerId # q
    IN  [q \in {arr[i].playerId : i \in 1..Len(arr)} |-> arr[last(q)]]

-----------------------------------------------------------------------------
(* History variables: they record what happened, no handler reads them *)

NoOp == [phase |-> "none", player |-> 0, field |-> "", value |-> 0, court |-> {},
         before |-> <<>>]
NoRun == [live |-> FALSE, t0 |-> 0, n |-> 0, court |-> {}, minutes0 |-> <<>>]

\* an operation that is neither a shot nor an edit
Logged(phase) == [NoOp EXCEPT !.phase = phase]

\* points and plusMinus of every record, as an operation finds them
Snapshot(stats) ==
    [q \in DOMAIN stats |-> [points |-> stats[q].points, plusMinus |-> stats[q].plusMinus]]

ShotLogged(pId, type) ==
    IF type \in MadeTypes
    THEN [phase |-> "shot", player |-> pId, field |-> madeFieldOf(type), value |-> 0,
          court |-> onCourtPlayers, before |-> Snapshot(playerStats)]
    ELSE [NoOp EXCEPT !.phase = "miss", !.player = pId, !.field = attemptedFieldOf(type)]

\* an edit asks for `value`; the edit that takes one off the made counter of the
\* made shot right before it, for the same player and lineup, is "undone" and
\* keeps what the shot found
EditLogged(pId, field, value) ==
    IF /\ opLog.phase = "shot"
       /\ opLog.player = pId
       /\ opLog.field = field
       /\ opLog.court = onCourtPlayers
       /\ value = playerStats[pId][field] - 1
    THEN [opLog EXCEPT !.phase = "undone", !.value = value]
    ELSE [phase |-> "edit", player |-> pId, field |-> field, value |-> value,
          court |-> onCourtPlayers,
          before |-> IF field \in MadeFields THEN Snapshot(playerStats) ELSE <<>>]

\* a start opens the run; ticks count; a pause, a change of the clock's time,
\* a substitution or an edit of minutes ends it
RunStarted ==
    [live |-> TRUE, t0 |-> timeLeft, n |-> 0, court |-> onCourtPlayers,
     minutes0 |-> [q \in DOMAIN playerStats |-> playerStats[q].minutes]]

-----------------------------------------------------------------------------
(* pages/GameDetail.tsx: the handlers.  Every control of the scoring view but *)
(* the start-game button is absent or disabled while the game is pending.    *)

Spend == budget > 0 /\ budget' = budget - 1

\* a slip: the callback registered at the first render is kept
onTickAfterRender_CapturedOnce(court, ref) == ref

\* handleTimerTick is rebuilt when onCourtPlayers changes (useCallback, line
\* 193) and the effect of lines 21-23 stores it in onTickRef.current
onTickAfterRender(court, ref) == court

\* a slip: the record is ensured before the lineup is checked
TogglePlayerOnCourt_RecordFirst(pId) ==
    LET tId == TeamOf(pId) IN
    /\ viewOpen
    /\ game.status # "pending"
    /\ IF pId \in onCourtPlayers
       THEN /\ onCourtPlayers' = onCourtPlayers \ {pId}
            /\ onTickRef' = onTickAfterRender(onCourtPlayers', onTickRef)
            /\ opLog' = [Logged("subOut") EXCEPT !.player = pId]
            /\ UNCHANGED <<playerStats, hasChanges, nextUuid>>
       ELSE /\ IF pId \notin DOMAIN playerStats
               THEN /\ playerStats' = MapSet(playerStats, pId,
                           [createEmptyPlayerStats(gameId, pId, tId) EXCEPT !.id = nextUuid])
                    /\ nextUuid' = nextUuid + 1
                    /\ hasChanges' = TRUE
               ELSE UNCHANGED <<playerStats, hasChanges, nextUuid>>
            /\ IF lineupFull(onCourtPlayers, tId)
               THEN /\ opLog' = [Logged("rejected") EXCEPT !.player = pId]
                    /\ UNCHANGED <<onCourtPlayers, onTickRef>>
               ELSE /\ onCourtPlayers' = onCourtPlayers \cup {pId}
                    /\ onTickRef' = onTickAfterRender(onCourtPlayers', onTickRef)
                    /\ opLog' = [Logged("subIn") EXCEPT !.player = pId]
    /\ runLog' = NoRun
    /\ UNCHANGED <<state, timerVars>>
    /\ UNCHANGED <<viewOpen, pendingTicks>>

\* a slip: a sub-in does not ensure the record
TogglePlayerOnCourt_NoRecord(pId) ==
    LET tId == TeamOf(pId) IN
    /\ viewOpen
    /\ game.status # "pending"
    /\ IF pId \in onCourtPlayers
       THEN /\ onCourtPlayers' = onCourtPlayers \ {pId}
            /\ opLog' = [Logged("subOut") EXCEPT !.player = pId]
       ELSE IF lineupFull(onCourtPlayers, tId)
       THEN /\ opLog' = [Logged("rejected") EXCEPT !.player = pId]
            /\ UNCHANGED onCourtPlayers
       ELSE /\ onCourtPlayers' = onCourtPlayers \cup {pId}
            /\ opLog' = [Logged("subIn") EXCEPT !.player = pId]
    /\ onTickRef' = onTickAfterRender(onCourtPlayers', onTickRef)
    /\ runLog' = NoRun
    /\ UNCHANGED <<state, playerStats, hasChanges, nextUuid, timerVars>>
    /\ UNCHANGED <<viewOpen, pendingTicks>>

TogglePlayerOnCourt(pId) ==
    LET tId == TeamOf(pId) IN
    /\ viewOpen
    /\ game.status # "pending"
    /\ IF pId \in onCourtPlayers
       THEN /\ onCourtPlayers' = onCourtPlayers \ {pId}
            /\ onTickRef' = onTickAfterRender(onCourtPlayers', onTickRef)
            /\ opLog' = [Logged("subOut") EXCEPT !.player = pId]
            /\ UNCHANGED <<playerStats, hasChanges, nextUuid>>
       ELSE IF lineupFull(onCourtPlayers, tId)
       THEN /\ opLog' = [Logged("rejected") EXCEPT !.player = pId]
            /\ UNCHANGED <<onCourtPlayers, onTickRef, playerStats, hasChanges, nextUuid>>
       ELSE /\ onCourtPlayers' = onCourtPlayers \cup {pId}
            /\ onTickRef' = onTickAfterRender(onCourtPlayers', onTickRef)
            /\ opLog' = [Logged("subIn") EXCEPT !.player = pId]
            /\ IF pId \notin DOMAIN playerStats
               THEN /\ playerStats' = MapSet(playerStats, pId,
                           [createEmptyPlayerStats(gameId, pId, tId) EXCEPT !.id = nextUuid])
                    /\ nextUuid' = nextUuid + 1
                    /\ hasChanges' = TRUE
               ELSE UNCHANGED <<playerStats, hasChanges, nextUuid>>
    /\ runLog' = NoRun
    /\ UNCHANGED <<state, timerVars>>
    /\ UNCHANGED <<viewOpen, pendingTicks>>

\* updateStat(playerId, teamId, field, value) with value an integer.  The new
\* map is built from the playerStats of the render the handler belongs to and
\* replaces the state (setPlayerStats(newStats), line 359): it comes after any
\* queued updater and supersedes it.
UpdateStatValue(pId, field, value) ==
    LET tId == TeamOf(pId) IN
    /\ viewOpen
    /\ game.status # "pending"
    /\ playerStats' = updateStatMap(playerStats, onCourtPlayers, pId, tId, field,
                                    value, nextUuid)
    /\ nextUuid' = IF getPlayerStat(playerStats, pId, tId).id # 0
                   THEN nextUuid ELSE nextUuid + 1
    /\ hasChanges' = TRUE
    /\ opLog' = EditLogged(pId, field, value)
    /\ runLog' = IF field = "minutes" THEN NoRun ELSE runLog
    /\ UNCHANGED <<state, onCourtPlayers, onTickRef, timerVars>>
    /\ pendingTicks' = <<>>
    /\ UNCHANGED viewOpen

\* the number input of a stat field: updateStat(.., parseInt(e.target.value) || 0)
UpdateStat(pId, field, input) ==
    /\ field \in statFields
    /\ UpdateStatValue(pId, field, parseIntOrZero(input))

\* the minutes input: updateStat(.., 'minutes', mins * 60 + secs), secs kept
UpdateMinutes(pId, input) ==
    LET stat == getPlayerStat(playerStats, pId, TeamOf(pId)) IN
    UpdateStatValue(pId, "minutes",
        (parseIntOrZero(input) * SecondsPerMinute) + (stat.minutes % SecondsPerMinute))

\* the seconds input: updateStat(.., 'minutes', mins * 60 + secs), the whole
\* minutes kept and secs = Math.min(59, Math.max(0, parseInt(..) || 0))
UpdateSeconds(pId, input) ==
    LET stat == getPlayerStat(playerStats, pId, TeamOf(pId))
        secs == IF Max(0, parseIntOrZero(input)) <= SecondsPerMinute - 1
                THEN Max(0, parseIntOrZero(input)) ELSE SecondsPerMinute - 1
    IN  UpdateStatValue(pId, "minutes",
            ((stat.minutes \div SecondsPerMinute) * SecondsPerMinute) + secs)

\* quickAdd(playerId, teamId, field, amount)
QuickAdd(pId, field, amount) ==
    UpdateStatValue(pId, field,
        getPlayerStat(playerStats, pId, TeamOf(pId))[field] + amount)

\* a slip: the shot buttons work whatever the status of the game
QuickScore_Ungated(pId, type) ==
    LET tId == TeamOf(pId) IN
    /\ viewOpen
    /\ playerStats' = quickScoreMap(playerStats, onCourtPlayers, pId, tId, type, nextUuid)
    /\ nextUuid' = IF getPlayerStat(playerStats, pId, tId).id # 0
                   THEN nextUuid ELSE nextUuid + 1
    /\ hasChanges' = TRUE
    /\ opLog' = ShotLogged(pId, type)
    /\ UNCHANGED <<state, onCourtPlayers, onTickRef, timerVars, runLog>>
    /\ UNCHANGED <<viewOpen, pendingTicks>>

\* a slip: every shot is written through to the store
QuickScore_Persisting(pId, type) ==
    LET tId == TeamOf(pId)
        newStats == quickScoreMap(playerStats, onCourtPlayers, pId, tId, type, nextUuid)
    IN
    /\ viewOpen
    /\ game.status # "pending"
    /\ playerStats' = newStats
    /\ nextUuid' = IF getPlayerStat(playerStats, pId, tId).id # 0
                   THEN nextUuid ELSE nextUuid + 1
    /\ hasChanges' = TRUE
    /\ opLog' = ShotLogged(pId, type)
    /\ state' = saveMultiplePlayerStats(state, statsArray(newStats))
    /\ UNCHANGED <<onCourtPlayers, onTickRef, timerVars, runLog>>
    /\ UNCHANGED <<viewOpen, pendingTicks>>

QuickScore(pId, type) ==
    LET tId == TeamOf(pId) IN
    /\ viewOpen
    /\ game.status # "pending"
    /\ playerStats' = quickScoreMap(playerStats, onCourtPlayers, pId, tId, type, nextUuid)
    /\ nextUuid' = IF getPlayerStat(playerStats, pId, tId).id # 0
                   THEN nextUuid ELSE nextUuid + 1
    /\ hasChanges' = TRUE
    /\ opLog' = ShotLogged(pId, type)
    /\ UNCHANGED <<state, onCourtPlayers, onTickRef, timerVars, runLog>>
    /\ pendingTicks' = <<>>
    /\ UNCHANGED viewOpen

\* a slip: the records are saved, the game's scores are not
HandleSaveState_StatsOnly(st) == saveMultiplePlayerStats(st, statsArray(playerStats))

HandleSaveState(st) ==
    saveGame(saveMultiplePlayerStats(st, statsArray(playerStats)),
             [game EXCEPT !.homeScore = teamScore(playerStats, game.homeTeamId),
                          !.awayScore = teamScore(playerStats, game.awayTeamId)])

HandleSave ==
    /\ viewOpen
    /\ game.status \in {"ongoing", "finished"}
    /\ hasChanges
    /\ state' = HandleSaveState(state)
    /\ hasChanges' = FALSE
    /\ opLog' = Logged("save")
    /\ UNCHANGED <<playerStats, onCourtPlayers, onTickRef, timerVars, nextUuid, runLog>>
    /\ UNCHANGED <<viewOpen, pendingTicks>>

HandleStartGame ==
    /\ viewOpen
    /\ game.status = "pending"
    /\ state' = saveGame(state, [game EXCEPT !.status = "ongoing"])
    /\ opLog' = Logged("startGame")
    /\ UNCHANGED <<playerStats, onCourtPlayers, onTickRef, hasChanges, timerVars, nextUuid, runLog>>
    /\ UNCHANGED <<viewOpen, pendingTicks>>

\* handleSave() queues its two updates of the AppState, then
\* updateGame({...game, status: 'finished'}) is queued with the game of the
\* render the handler was created in
HandleEndGame(confirmed) ==
    /\ viewOpen
    /\ game.status = "ongoing"
    /\ IF confirmed
       THEN /\ state' = saveGame(HandleSaveState(state), [game EXCEPT !.status = "finished"])
            /\ hasChanges' = FALSE
       ELSE UNCHANGED <<state, hasChanges>>
    /\ opLog' = Logged("endGame")
    /\ UNCHANGED <<playerStats, onCourtPlayers, onTickRef, timerVars, nextUuid, runLog>>
    /\ UNCHANGED <<viewOpen, pendingTicks>>

-----------------------------------------------------------------------------
(* pages/GameDetail.tsx: useGameTimer and handleTimerTick *)

\* a slip: the handle is forgotten, its timer is not cleared
clearTimer_RefOnly(ref, live) == live

\* clearTimer: the timer intervalRef.current holds, if any, is cleared
clearTimer(ref, live) == IF ref THEN live - 1 ELSE live

\* the interval effect, run after a render in which isRunning changed: the
\* cleanup of the previous run (clearTimer), then a new timer or clearTimer
intervalAfter(running, left) == running /\ left > 0

\* a slip: the effect never creates the timer
liveAfter_Never(ref, live, running, left) == clearTimer(ref, live)

liveAfter(ref, live, running, left) ==
    clearTimer(ref, live) + (IF running /\ left > 0 THEN 1 ELSE 0)

Start ==
    /\ viewOpen
    /\ game.status # "pending"
    /\ IF isRunning
       THEN UNCHANGED <<isRunning, intervalRef, liveIntervals, runLog>>
       ELSE /\ isRunning' = TRUE
            /\ intervalRef' = intervalAfter(TRUE, timeLeft)
            /\ liveIntervals' = liveAfter(intervalRef, liveIntervals, TRUE, timeLeft)
            /\ runLog' = RunStarted
    /\ opLog' = Logged("clock")
    /\ UNCHANGED <<state, playerStats, onCourtPlayers, onTickRef, hasChanges, timeLeft,
                   currentQuarter, quarterMinutes, nextUuid>>
    /\ UNCHANGED <<viewOpen, pendingTicks>>

Pause ==
    /\ viewOpen
    /\ game.status # "pending"
    /\ isRunning
    /\ isRunning' = FALSE
    /\ intervalRef' = intervalAfter(FALSE, timeLeft)
    /\ liveIntervals' = liveAfter(intervalRef, liveIntervals, FALSE, timeLeft)
    /\ opLog' = Logged("clock")
    /\ runLog' = NoRun
    /\ UNCHANGED <<state, playerStats, onCourtPlayers, onTickRef, hasChanges, timeLeft,
                   currentQuarter, quarterMinutes, nextUuid>>
    /\ UNCHANGED <<viewOpen, pendingTicks>>

Reset ==
    /\ viewOpen
    /\ game.status # "pending"
    /\ ~isRunning
    /\ isRunning' = FALSE
    /\ timeLeft' = quarterMinutes * SecondsPerMinute
    /\ opLog' = Logged("clock")
    /\ runLog' = NoRun
    /\ UNCHANGED <<state, playerStats, onCourtPlayers, onTickRef, hasChanges, currentQuarter,
                   quarterMinutes, intervalRef, liveIntervals, nextUuid>>
    /\ UNCHANGED <<viewOpen, pendingTicks>>

\* a slip: the quarter is advanced whatever it is
NextQuarter_Unbounded ==
    /\ viewOpen
    /\ game.status # "pending"
    /\ ~isRunning
    /\ currentQuarter' = currentQuarter + 1
    /\ timeLeft' = quarterMinutes * SecondsPerMinute
    /\ isRunning' = FALSE
    /\ opLog' = [Logged("clock") EXCEPT !.field = "nextQuarter", !.value = currentQuarter]
    /\ runLog' = NoRun
    /\ UNCHANGED <<state, playerStats, onCourtPlayers, onTickRef, hasChanges,
                   quarterMinutes, intervalRef, liveIntervals, nextUuid>>
    /\ UNCHANGED <<viewOpen, pendingTicks>>

NextQuarter ==
    /\ viewOpen
    /\ game.status # "pending"
    /\ ~isRunning
    /\ IF currentQuarter < LastQuarter
       THEN /\ currentQuarter' = currentQuarter + 1
            /\ timeLeft' = quarterMinutes * SecondsPerMinute
            /\ isRunning' = FALSE
       ELSE UNCHANGED <<currentQuarter, timeLeft, isRunning>>
    /\ opLog' = [Logged("clock") EXCEPT !.field = "nextQuarter", !.value = currentQuarter]
    /\ runLog' = NoRun
    /\ UNCHANGED <<state, playerStats, onCourtPlayers, onTickRef, hasChanges, quarterMinutes,
                   intervalRef, liveIntervals, nextUuid>>
    /\ UNCHANGED <<viewOpen, pendingTicks>>

\* a slip: the floor at zero is missing
AdjustTime_NoFloor(seconds) ==
    /\ viewOpen
    /\ game.status # "pending"
    /\ timeLeft' = timeLeft + seconds
    /\ opLog' = [Logged("clock") EXCEPT !.field = "adjustTime", !.value = seconds]
    /\ runLog' = NoRun
    /\ UNCHANGED <<state, playerStats, onCourtPlayers, onTickRef, hasChanges, isRunning,
                   currentQuarter, quarterMinutes, intervalRef, liveIntervals, nextUuid>>
    /\ UNCHANGED <<viewOpen, pendingTicks>>

AdjustTime(seconds) ==
    /\ viewOpen
    /\ game.status # "pending"
    /\ timeLeft' = Max(0, timeLeft + seconds)
    /\ opLog' = [Logged("clock") EXCEPT !.field = "adjustTime", !.value = seconds]
    /\ runLog' = NoRun
    /\ UNCHANGED <<state, playerStats, onCourtPlayers, onTickRef, hasChanges, isRunning,
                   currentQuarter, quarterMinutes, intervalRef, liveIntervals, nextUuid>>
    /\ UNCHANGED <<viewOpen, pendingTicks>>

\* setQuarterTime(minutes): the quarter-length select, disabled while running
SetQuarterTime(minutes) ==
    /\ viewOpen
    /\ game.status # "pending"
    /\ ~isRunning
    /\ quarterMinutes' = minutes
    /\ timeLeft' = IF ~isRunning THEN minutes * SecondsPerMinute ELSE timeLeft
    /\ opLog' = Logged("clock")
    /\ runLog' = NoRun
    /\ UNCHANGED <<state, playerStats, onCourtPlayers, onTickRef, hasChanges, isRunning,
                   currentQuarter, intervalRef, liveIntervals, nextUuid>>
    /\ UNCHANGED <<viewOpen, pendingTicks>>

\* the quarter - and + buttons (lines 647-663), disabled while running and at
\* the first, resp. the last, quarter
StepCurrentQuarter(step) ==
    /\ viewOpen
    /\ game.status # "pending"
    /\ ~isRunning
    /\ IF step < 0 THEN currentQuarter > 1 ELSE currentQuarter < LastQuarter
    /\ currentQuarter' = IF step < 0 THEN Max(1, currentQuarter - 1)
                         ELSE IF currentQuarter + 1 <= LastQuarter THEN currentQuarter + 1
                         ELSE LastQuarter
    /\ opLog' = Logged("clock")
    /\ UNCHANGED <<state, playerStats, onCourtPlayers, onTickRef, hasChanges, timeLeft, isRunning,
                   quarterMinutes, intervalRef, liveIntervals, nextUuid, runLog>>
    /\ UNCHANGED <<viewOpen, pendingTicks>>

\* a slip: the tick that reaches zero stops the clock and skips the callback
Tick_SilentAtZero ==
    /\ liveIntervals > 0
    /\ timeLeft' = IF timeLeft <= 1 THEN 0 ELSE timeLeft - 1
    /\ isRunning' = IF timeLeft <= 1 THEN FALSE ELSE isRunning
    /\ intervalRef' = IF timeLeft <= 1 THEN FALSE ELSE intervalRef
    /\ liveIntervals' = IF timeLeft <= 1 THEN clearTimer(intervalRef, liveIntervals)
                        ELSE liveIntervals
    /\ playerStats' = IF timeLeft <= 1 THEN playerStats
                      ELSE accrueCourtTime(playerStats, onTickRef)
    /\ hasChanges' = (hasChanges \/ (timeLeft > 1 /\ onTickRef \cap DOMAIN playerStats # {}))
    /\ opLog' = Logged("tick")
    /\ runLog' = IF runLog.live THEN [runLog EXCEPT !.n = @ + 1] ELSE runLog
    /\ UNCHANGED <<state, onCourtPlayers, onTickRef, currentQuarter, quarterMinutes, nextUuid>>
    /\ UNCHANGED <<viewOpen, pendingTicks>>

\* the queued handleTimerTick updaters applied in order (setPlayerStats(prev => ..))
RECURSIVE applyPending(_, _)
applyPending(stats, pending) ==
    IF pending = <<>> THEN stats
    ELSE applyPending(accrueCourtTime(stats, Head(pending)), Tail(pending))

\* the interval callback up to its return: the timer state is settled, the
\* updater of handleTimerTick is queued, the component has not rendered yet
TickDelivered ==
    /\ liveIntervals > 0
    /\ timeLeft' = IF timeLeft <= 1 THEN 0 ELSE timeLeft - 1
    /\ isRunning' = IF timeLeft <= 1 THEN FALSE ELSE isRunning
    /\ intervalRef' = IF timeLeft <= 1 THEN FALSE ELSE intervalRef
    /\ liveIntervals' = IF timeLeft <= 1 THEN clearTimer(intervalRef, liveIntervals)
                        ELSE liveIntervals
    /\ pendingTicks' = Append(pendingTicks, onTickRef)
    /\ opLog' = Logged("tick")
    /\ runLog' = IF runLog.live THEN [runLog EXCEPT !.n = @ + 1] ELSE runLog
    /\ UNCHANGED <<state, playerStats, hasChanges, onCourtPlayers, onTickRef,
                   currentQuarter, quarterMinutes, nextUuid, viewOpen>>

\* the render that follows: the queued updaters run on the current state
Render ==
    /\ pendingTicks # <<>>
    /\ playerStats' = applyPending(playerStats, pendingTicks)
    /\ hasChanges' = (hasChanges \/ playerStats' # playerStats)
    /\ pendingTicks' = <<>>
    /\ opLog' = Logged("render")
    /\ UNCHANGED <<state, onCourtPlayers, onTickRef, timerVars, viewOpen, nextUuid, runLog>>

\* a slip: the tick does not mark the data as changed
Tick_NotDirty ==
    /\ liveIntervals > 0
    /\ timeLeft' = IF timeLeft <= 1 THEN 0 ELSE timeLeft - 1
    /\ isRunning' = IF timeLeft <= 1 THEN FALSE ELSE isRunning
    /\ intervalRef' = IF timeLeft <= 1 THEN FALSE ELSE intervalRef
    /\ liveIntervals' = IF timeLeft <= 1 THEN clearTimer(intervalRef, liveIntervals)
                        ELSE liveIntervals
    /\ playerStats' = accrueCourtTime(playerStats, onTickRef)
    /\ hasChanges' = hasChanges
    /\ opLog' = Logged("tick")
    /\ runLog' = IF runLog.live THEN [runLog EXCEPT !.n = @ + 1] ELSE runLog
    /\ UNCHANGED <<state, onCourtPlayers, onTickRef, currentQuarter, quarterMinutes, nextUuid>>
    /\ UNCHANGED <<viewOpen, pendingTicks>>

\* the interval callback, which the browser runs for a live timer: the
\* setTimeLeft updater, then onTickRef.current(); and the render that follows
Tick ==
    /\ liveIntervals > 0
    /\ timeLeft' = IF timeLeft <= 1 THEN 0 ELSE timeLeft - 1
    /\ isRunning' = IF timeLeft <= 1 THEN FALSE ELSE isRunning
    /\ intervalRef' = IF timeLeft <= 1 THEN FALSE ELSE intervalRef
    /\ liveIntervals' = IF timeLeft <= 1 THEN clearTimer(intervalRef, liveIntervals)
                        ELSE liveIntervals
    /\ playerStats' = accrueCourtTime(playerStats, onTickRef)
    /\ hasChanges' = (hasChanges \/ (onTickRef \cap DOMAIN playerStats # {}))
    /\ opLog' = Logged("tick")
    /\ runLog' = IF runLog.live THEN [runLog EXCEPT !.n = @ + 1] ELSE runLog
    /\ UNCHANGED <<state, onCourtPlayers, onTickRef, currentQuarter, quarterMinutes, nextUuid>>
    /\ UNCHANGED <<viewOpen, pendingTicks>>

-----------------------------------------------------------------------------
(* Navigation between the Games page and the GameDetail page of the game;    *)
(* pages/Games.tsx and the delete handlers of the list pages.                *)

\* the state of a GameDetail component that is not mounted, or just mounted
\* over an empty store
Unmounted ==
    /\ playerStats' = <<>>
    /\ pendingTicks' = <<>>
    /\ onCourtPlayers' = {}
    /\ onTickRef' = onCourtPlayers'
    /\ hasChanges' = FALSE
    /\ timeLeft' = InitialMinutes * SecondsPerMinute
    /\ isRunning' = FALSE
    /\ currentQuarter' = 1
    /\ quarterMinutes' = InitialMinutes
    /\ intervalRef' = FALSE
    /\ liveIntervals' = clearTimer(intervalRef, liveIntervals)

\* "back to the list": the component unmounts, the effect's cleanup clears the
\* interval, the in-memory state is gone
LeaveView ==
    /\ viewOpen
    /\ viewOpen' = FALSE
    /\ Unmounted
    /\ opLog' = Logged("leave")
    /\ runLog' = NoRun
    /\ UNCHANGED <<state, nextUuid>>

\* the link of the Games list: the component mounts, playerStats starts as
\* initialStatsMap, everything else at its useState default
OpenView ==
    /\ ~viewOpen
    /\ \E i \in 1..Len(state.games) : state.games[i].id = gameId
    /\ viewOpen' = TRUE
    /\ playerStats' = initialStatsMap(state, gameId)
    /\ pendingTicks' = <<>>
    /\ onCourtPlayers' = {}
    /\ onTickRef' = onCourtPlayers'
    /\ hasChanges' = FALSE
    /\ timeLeft' = InitialMinutes * SecondsPerMinute
    /\ isRunning' = FALSE
    /\ currentQuarter' = 1
    /\ quarterMinutes' = InitialMinutes
    /\ intervalRef' = FALSE
    /\ liveIntervals' = liveIntervals
    /\ opLog' = Logged("open")
    /\ runLog' = NoRun
    /\ UNCHANGED <<state, nextUuid>>

\* a slip: the edited game is built like a new one
GamesSubmitEdit_AsNew(home, away, date, location) ==
    /\ ~viewOpen
    /\ \E i \in 1..Len(state.games) : state.games[i].id = gameId
    /\ IF home = away
       THEN UNCHANGED state
       ELSE state' = saveGame(state, [id |-> gameId, homeTeamId |-> home, awayTeamId |-> away,
                                      homeScore |-> 0, awayScore |-> 0, date |-> date,
                                      location |-> location, status |-> "pending"])
    /\ opLog' = Logged("editGame")
    /\ UNCHANGED <<playerStats, onCourtPlayers, onTickRef, hasChanges, timerVars, viewOpen, pendingTicks,
                   nextUuid, runLog>>

\* Games handleSubmit with editingGame the game: the form's teams, date and
\* location replace those of the game
GamesSubmitEdit(home, away, date, location) ==
    /\ ~viewOpen
    /\ \E i \in 1..Len(state.games) : state.games[i].id = gameId
    /\ IF home = away
       THEN UNCHANGED state
       ELSE state' = saveGame(state, [game EXCEPT !.homeTeamId = home, !.awayTeamId = away,
                                                  !.date = date, !.location = location])
    /\ opLog' = Logged("editGame")
    /\ UNCHANGED <<playerStats, onCourtPlayers, onTickRef, hasChanges, timerVars, viewOpen, pendingTicks,
                   nextUuid, runLog>>

\* the delete buttons of the Teams, Players and Games pages, confirmed
DeleteTeam(tId) ==
    /\ ~viewOpen
    /\ state' = deleteTeam(state, tId)
    /\ opLog' = Logged("deleteTeam")
    /\ UNCHANGED <<playerStats, onCourtPlayers, onTickRef, hasChanges, timerVars, viewOpen, pendingTicks,
                   nextUuid, runLog>>

DeletePlayer(pId) ==
    /\ ~viewOpen
    /\ state' = deletePlayer(state, pId)
    /\ opLog' = [Logged("deletePlayer") EXCEPT !.player = pId]
    /\ UNCHANGED <<playerStats, onCourtPlayers, onTickRef, hasChanges, timerVars, viewOpen, pendingTicks,
                   nextUuid, runLog>>

DeleteGame(gId) ==
    /\ ~viewOpen
    /\ state' = deleteGame(state, gId)
    /\ opLog' = Logged("deleteGame")
    /\ UNCHANGED <<playerStats, onCourtPlayers, onTickRef, hasChanges, timerVars, viewOpen, pendingTicks,
                   nextUuid, runLog>>

-----------------------------------------------------------------------------
(* The scoring specification: a game between two small rosters, every scoring *)
(* handler, edits of the made counters, saves and the end of the game.        *)

\* what a user types into a number input: nothing, or an integer
Inputs == {[nan |-> TRUE, n |-> 0]} \cup {[nan |-> FALSE, n |-> k] : k \in {-1, 2}}

\* The view as the game is opened (nothing on court, no record), or after the
\* lineups have been set by sub-ins: the players of `records` have a zeroed
\* record with a fresh id (togglePlayerOnCourt lines 268-276), those of
\* `court` are on court, at most five of a team; and, with `running`, after
\* the clock has then been started.
ViewState(homeIds, awayIds, status, records, court, running, ops) ==
    /\ state = NewAppState(homeIds, awayIds, status)
    /\ playerStats =
          [q \in records |->
              [createEmptyPlayerStats(gameId, q,
                   IF q \in homeIds THEN homeTeamId ELSE awayTeamId)
               EXCEPT !.id = Cardinality({r \in records : r <= q})]]
    /\ onCourtPlayers = court
    /\ onTickRef = court
    /\ pendingTicks = <<>>
    /\ hasChanges = (records # {})
    /\ timeLeft = InitialMinutes * SecondsPerMinute
    /\ isRunning = running
    /\ currentQuarter = 1
    /\ quarterMinutes = InitialMinutes
    /\ intervalRef = running
    /\ liveIntervals = IF running THEN 1 ELSE 0
    /\ viewOpen = TRUE
    /\ nextUuid = Cardinality(records) + 1
    /\ budget = ops
    /\ opLog = NoOp
    /\ runLog = IF running
                THEN [live |-> TRUE, t0 |-> InitialMinutes * SecondsPerMinute, n |-> 0,
                      court |-> court, minutes0 |-> [q \in records |-> 0]]
                ELSE NoRun

Lineups(homeIds, awayIds) ==
    {c \in SUBSET (homeIds \cup awayIds) :
        /\ Cardinality(c \cap homeIds) <= MaxOnCourt
        /\ Cardinality(c \cap awayIds) <= MaxOnCourt}

ScoreHomeIds == {1, 2}
ScoreAwayIds == {11}

Init ==
    \/ ViewState(ScoreHomeIds, ScoreAwayIds, "pending", {}, {}, FALSE, ScoreOps)
    \/ \E court \in Lineups(ScoreHomeIds, ScoreAwayIds) :
       \E records \in SUBSET (ScoreHomeIds \cup ScoreAwayIds) :
          /\ court \subseteq records
          /\ ViewState(ScoreHomeIds, ScoreAwayIds, "ongoing", records, court, FALSE, ScoreOps)

Next ==
    \/ Spend /\ HandleStartGame
    \/ Spend /\ \E p \in Roster : TogglePlayerOnCourt(p)
    \/ Spend /\ \E p \in Roster, t \in ShotTypes : QuickScore(p, t)
    \/ Spend /\ \E p \in Roster, f \in MadeFields, a \in {-1, 1} : QuickAdd(p, f, a)
    \/ Spend /\ \E p \in Roster, f \in MadeFields, i \in Inputs : UpdateStat(p, f, i)
    \/ Spend /\ HandleSave
    \/ Spend /\ \E c \in BOOLEAN : HandleEndGame(c)

Spec == Init /\ [][Next]_vars

-----------------------------------------------------------------------------
(* The field-edit specification: one player a side, every control of the      *)
(* player card on every field, shots, substitutions, the clock and saves.     *)

FieldHomeIds == {1}
FieldAwayIds == {11}

\* the steps of the -/+ buttons: 1 on a stat field; 10 s and 60 s on minutes
quickAddAmounts(field) == IF field = "minutes" THEN {-60, -10, 10, 60} ELSE {-1, 1}

InitFields ==
    \E court \in Lineups(FieldHomeIds, FieldAwayIds), running \in BOOLEAN :
       ViewState(FieldHomeIds, FieldAwayIds, "ongoing", court, court, running, FieldOps)

NextFields ==
    \/ Spend /\ \E p \in Roster : TogglePlayerOnCourt(p)
    \/ Spend /\ \E p \in Roster, t \in ShotTypes : QuickScore(p, t)
    \/ Spend /\ \E p \in Roster, f \in EditableFields :
                   \E a \in quickAddAmounts(f) : QuickAdd(p, f, a)
    \/ Spend /\ \E p \in Roster, f \in statFields, i \in Inputs : UpdateStat(p, f, i)
    \/ Spend /\ \E p \in Roster, i \in Inputs : UpdateMinutes(p, i)
    \/ Spend /\ \E p \in Roster, i \in Inputs : UpdateSeconds(p, i)
    \/ Spend /\ Start
    \/ Spend /\ Pause
    \/ Spend /\ Tick
    \/ Spend /\ HandleSave

SpecFields == InitFields /\ [][NextFields]_vars

-----------------------------------------------------------------------------
(* The lineup specification: six home players and one away player, from any  *)
(* lineup the sub-ins can have set; substitutions with shots, edits, the     *)
(* clock and saves in between.                                               *)

LineupHomeIds == 1..6
LineupAwayIds == {11}

InitLineup ==
    \E court \in Lineups(LineupHomeIds, LineupAwayIds) :
       ViewState(LineupHomeIds, LineupAwayIds, "ongoing", court, court, FALSE, LineupOps)

NextLineup ==
    \/ Spend /\ \E p \in Roster : TogglePlayerOnCourt(p)
    \/ Spend /\ \E p \in Roster : QuickScore(p, "2pt_made")
    \/ Spend /\ \E p \in Roster : QuickAdd(p, "assists", 1)
    \/ Spend /\ Start
    \/ Spend /\ Tick
    \/ Spend /\ HandleSave

SpecLineup == InitLineup /\ [][NextLineup]_vars

-----------------------------------------------------------------------------
(* The quarter specification: one player a side, the clock started and run   *)
(* down to zero tick by tick; a few other operations early in the quarter.   *)

QuarterHomeIds == {1}
QuarterAwayIds == {11}

EarlyInQuarter == timeLeft >= (quarterMinutes * SecondsPerMinute) - QuarterWindow

InitQuarter ==
    \E records \in SUBSET (QuarterHomeIds \cup QuarterAwayIds) :
       \E court \in SUBSET records :
          ViewState(QuarterHomeIds, QuarterAwayIds, "ongoing", records, court, FALSE, QuarterOps)

NextQuarterSpec ==
    \/ Start /\ UNCHANGED budget
    \/ Tick /\ UNCHANGED budget
    \/ EarlyInQuarter /\ Spend /\ \E p \in Roster : TogglePlayerOnCourt(p)
    \/ EarlyInQuarter /\ Spend /\ \E p \in Roster : \E a \in {-60, 60} : QuickAdd(p, "minutes", a)
    \/ EarlyInQuarter /\ Spend /\ \E p \in Roster : QuickScore(p, "2pt_made")
    \/ EarlyInQuarter /\ Spend /\ Pause
    \/ EarlyInQuarter /\ Spend /\ \E d \in {-10, 10} : AdjustTime(d)

SpecQuarter == InitQuarter /\ [][NextQuarterSpec]_vars

-----------------------------------------------------------------------------
(* The frame specification: substitutions, shots and ticks set the scene,    *)
(* then one missed shot or one edit of a field that is no made counter ends  *)
(* the behaviour.                                                            *)

FrameHomeIds == {1}
FrameAwayIds == {11}

\* the operation that ends the behaviour
Closing == budget >= 0 /\ budget' = 0 - 1

InitFrame ==
    \E court \in Lineups(FrameHomeIds, FrameAwayIds), running \in BOOLEAN :
       ViewState(FrameHomeIds, FrameAwayIds, "ongoing", court, court, running, FrameOps)

NextFrame ==
    \/ Spend /\ \E p \in Roster : TogglePlayerOnCourt(p)
    \/ Spend /\ \E p \in Roster, t \in MadeTypes : QuickScore(p, t)
    \/ Spend /\ Tick
    \/ Closing /\ \E p \in Roster, t \in ShotTypes \ MadeTypes : QuickScore(p, t)
    \/ Closing /\ \E p \in Roster, f \in EditableFields \ MadeFields :
                     \E a \in quickAddAmounts(f) : QuickAdd(p, f, a)
    \/ Closing /\ \E p \in Roster, f \in statFields \ MadeFields, i \in Inputs :
                     UpdateStat(p, f, i)
    \/ Closing /\ \E p \in Roster, i \in Inputs : UpdateMinutes(p, i)
    \/ Closing /\ \E p \in Roster, i \in Inputs : UpdateSeconds(p, i)

SpecFrame == InitFrame /\ [][NextFrame]_vars

-----------------------------------------------------------------------------
(* The clock specification: every control of the timer card and the tick,    *)
(* from the start of the first quarter or from its last seconds.             *)

ClockHomeIds == {1}
ClockAwayIds == {11}

\* the view after the lineup was set, the clock started at 12:00 and n ticks
\* delivered, n short of the whole quarter
RunningFor(homeIds, awayIds, court, n, ops) ==
    /\ state = NewAppState(homeIds, awayIds, "ongoing")
    /\ playerStats =
          [q \in court |->
              [createEmptyPlayerStats(gameId, q,
                   IF q \in homeIds THEN homeTeamId ELSE awayTeamId)
               EXCEPT !.id = Cardinality({r \in court : r <= q}), !.minutes = n]]
    /\ onCourtPlayers = court
    /\ onTickRef = court
    /\ pendingTicks = <<>>
    /\ hasChanges = (court # {})
    /\ timeLeft = (InitialMinutes * SecondsPerMinute) - n
    /\ isRunning = TRUE
    /\ currentQuarter = 1
    /\ quarterMinutes = InitialMinutes
    /\ intervalRef = TRUE
    /\ liveIntervals = 1
    /\ viewOpen = TRUE
    /\ nextUuid = Cardinality(court) + 1
    /\ budget = ops
    /\ opLog = IF n > 0 THEN Logged("tick") ELSE Logged("clock")
    /\ runLog = [live |-> TRUE, t0 |-> InitialMinutes * SecondsPerMinute, n |-> n,
                 court |-> court, minutes0 |-> [q \in court |-> 0]]

QuarterLengths == {5, 8, 10, 12, 20}

InitClock ==
    \E court \in {{}, {1}, {1, 11}} :
       \/ ViewState(ClockHomeIds, ClockAwayIds, "ongoing", court, court, FALSE, ClockOps)
       \/ \E left \in 1..ClockTail :
             RunningFor(ClockHomeIds, ClockAwayIds, court,
                        (InitialMinutes * SecondsPerMinute) - left, ClockOps)

NextClock ==
    \/ Spend /\ Start
    \/ Spend /\ Pause
    \/ Spend /\ Reset
    \/ Spend /\ NextQuarter
    \/ Spend /\ \E m \in QuarterLengths : SetQuarterTime(m)
    \/ Spend /\ \E d \in {-1, 1} : StepCurrentQuarter(d)
    \/ Spend /\ \E d \in {-10, 10} : AdjustTime(d)
    \/ Spend /\ Tick
    \/ Spend /\ \E p \in Roster : TogglePlayerOnCourt(p)
    \/ Spend /\ LeaveView
    \/ Spend /\ OpenView

SpecClock == InitClock /\ [][NextClock]_vars

-----------------------------------------------------------------------------
(* The render specification: the clock runs with the lineups set; ticks are   *)
(* delivered and rendered, together or apart, and shots and fouls are        *)
(* recorded in between.                                                      *)

RenderHomeIds == {1}
RenderAwayIds == {11}

InitRender ==
    \E court \in Lineups(RenderHomeIds, RenderAwayIds) :
       ViewState(RenderHomeIds, RenderAwayIds, "ongoing", court, court, TRUE, RenderOps)

NextRender ==
    \/ Spend /\ Tick
    \/ Spend /\ TickDelivered
    \/ Render /\ UNCHANGED budget
    \/ Spend /\ \E p \in Roster, t \in {"2pt_made", "ft_miss"} : QuickScore(p, t)
    \/ Spend /\ \E p \in Roster : QuickAdd(p, "fouls", 1)

SpecRender == InitRender /\ [][NextRender]_vars

-----------------------------------------------------------------------------
(* The countdown specification: the clock is started and never paused, reset, *)
(* advanced or adjusted; substitutions and shots go on at the start and at   *)
(* the end of the quarter; every live timer keeps firing (setInterval),      *)
(* which is the fairness of the tick.                                        *)

CountdownHomeIds == {1}
CountdownAwayIds == {11}

\* the first and the last seconds of the quarter
CountdownEdge ==
    \/ timeLeft >= (quarterMinutes * SecondsPerMinute) - CountdownWindow
    \/ timeLeft <= CountdownWindow

InitCountdown ==
    \E court \in {{}, {1}} :
       ViewState(CountdownHomeIds, CountdownAwayIds, "ongoing", court, court, FALSE,
                 CountdownOps)

\* the interval callback fires as long as its timer is alive
Beat == Tick /\ UNCHANGED budget

NextCountdown ==
    \/ Start /\ UNCHANGED budget
    \/ Beat
    \/ CountdownEdge /\ Spend /\ \E p \in Roster : TogglePlayerOnCourt(p)
    \/ CountdownEdge /\ Spend /\ \E p \in Roster : QuickScore(p, "2pt_made")

SpecCountdown == InitCountdown /\ [][NextCountdown]_vars /\ WF_vars(Beat)

-----------------------------------------------------------------------------
(* The session specification: a game from its creation on the Games page,    *)
(* through opening the scoring view, start, scoring, saves, leaving and      *)
(* re-opening the view, edits of the game on the Games page, to its end.     *)

SessionHomeIds == {1}
SessionAwayIds == {11}

\* the form of the Games page: the two teams either way round or the same team
\* twice, and a date and location
GameForms ==
    {[home |-> h, away |-> a, date |-> d.date, location |-> d.location] :
        h \in {homeTeamId, awayTeamId}, a \in {homeTeamId, awayTeamId},
        d \in {[date |-> "d1", location |-> ""], [date |-> "d2", location |-> "gym"]}}

\* the store after an earlier visit in which the game was started, the home
\* player made a two-pointer (uuid 1) and the data were saved
SavedAppState ==
    LET started == NewAppState(SessionHomeIds, SessionAwayIds, "ongoing")
        stats == quickScoreMap(<<>>, {}, 1, homeTeamId, "2pt_made", 1)
        g == getGameById(started, gameId)
    IN  saveGame(saveMultiplePlayerStats(started, statsArray(stats)),
                 [g EXCEPT !.homeScore = teamScore(stats, g.homeTeamId),
                           !.awayScore = teamScore(stats, g.awayTeamId)])

\* the Games page is shown: the GameDetail component is not mounted
GamesPage(st, uuid, ops) ==
    /\ state = st
    /\ playerStats = <<>>
    /\ onCourtPlayers = {}
    /\ onTickRef = {}
    /\ pendingTicks = <<>>
    /\ hasChanges = FALSE
    /\ timeLeft = InitialMinutes * SecondsPerMinute
    /\ isRunning = FALSE
    /\ currentQuarter = 1
    /\ quarterMinutes = InitialMinutes
    /\ intervalRef = FALSE
    /\ liveIntervals = 0
    /\ viewOpen = FALSE
    /\ nextUuid = uuid
    /\ budget = ops
    /\ opLog = NoOp
    /\ runLog = NoRun

\* the game has just been created (Games handleSubmit, lines 76-86), or the
\* user is back on the Games page after the earlier visit
InitSession ==
    \/ GamesPage(NewAppState(SessionHomeIds, SessionAwayIds, "pending"), 1, SessionOps)
    \/ GamesPage(SavedAppState, 2, SessionOps)

NextSession ==
    \/ Spend /\ OpenView
    \/ Spend /\ LeaveView
    \/ Spend /\ \E f \in GameForms : GamesSubmitEdit(f.home, f.away, f.date, f.location)
    \/ Spend /\ HandleStartGame
    \/ Spend /\ \E c \in BOOLEAN : HandleEndGame(c)
    \/ Spend /\ HandleSave
    \/ Spend /\ \E p \in Roster : TogglePlayerOnCourt(p)
    \/ Spend /\ \E p \in Roster, t \in {"2pt_made", "2pt_miss"} : QuickScore(p, t)
    \/ Spend /\ \E p \in Roster : QuickAdd(p, "fouls", 1)
    \/ Spend /\ \E p \in Roster : UpdateMinutes(p, [nan |-> FALSE, n |-> 2])
    \/ Spend /\ Start
    \/ Spend /\ Pause
    \/ Spend /\ AdjustTime(-10)
    \/ Spend /\ Tick

SpecSession == InitSession /\ [][NextSession]_vars

-----------------------------------------------------------------------------
(* The store specification: three teams, four players, two games and the     *)
(* statistics saved for them; teams, players and games are deleted on the    *)
(* list pages.                                                               *)

StoreTeams == {homeTeamId, awayTeamId, "B"}
StorePlayers == {[id |-> 1, teamId |-> homeTeamId], [id |-> 2, teamId |-> homeTeamId],
                 [id |-> 11, teamId |-> awayTeamId], [id |-> 21, teamId |-> "B"]}
StoreGames ==
    <<[id |-> gameId, homeTeamId |-> homeTeamId, awayTeamId |-> awayTeamId,
       homeScore |-> 0, awayScore |-> 0, date |-> "d1", location |-> "", status |-> "ongoing"],
      [id |-> "g2", homeTeamId |-> awayTeamId, awayTeamId |-> "B",
       homeScore |-> 0, awayScore |-> 0, date |-> "d2", location |-> "", status |-> "ongoing"]>>

\* the (game, player, team) triples statistics can have been saved for, in the
\* order they were saved
StoreSlots == <<[g |-> gameId, p |-> 1, t |-> homeTeamId], [g |-> gameId, p |-> 11, t |-> awayTeamId],
                [g |-> "g2", p |-> 11, t |-> awayTeamId], [g |-> "g2", p |-> 21, t |-> "B"],
                [g |-> gameId, p |-> 2, t |-> homeTeamId]>>

\* the statistics saved for the slots of `saved`, with the ids 1, 2, .. of their saving
StoreStats(saved) ==
    LET RECURSIVE from(_, _)
        from(k, n) ==
            IF k > Len(StoreSlots) THEN <<>>
            ELSE IF k \in saved
                 THEN <<[createEmptyPlayerStats(StoreSlots[k].g, StoreSlots[k].p, StoreSlots[k].t)
                           EXCEPT !.id = n]>> \o from(k + 1, n + 1)
                 ELSE from(k + 1, n)
    IN  from(1, 1)

InitStore ==
    \E saved \in SUBSET (1..Len(StoreSlots)) :
       GamesPage([teams |-> StoreTeams, players |-> StorePlayers, games |-> StoreGames,
                  playerStats |-> StoreStats(saved)],
                 Cardinality(saved) + 1, StoreOps)

NextStore ==
    \/ Spend /\ \E t \in StoreTeams : DeleteTeam(t)
    \/ Spend /\ \E q \in StorePlayers : DeletePlayer(q.id)
    \/ Spend /\ \E i \in 1..Len(StoreGames) : DeleteGame(StoreGames[i].id)

SpecStore == InitStore /\ [][NextStore]_vars

-----------------------------------------------------------------------------
(* Properties verified under Spec *)

\* the point values and counters of the made shot types, as the properties below state them
ShotWorth(type) == CASE type = "2pt_made" -> 2 [] type = "3pt_made" -> 3 [] type = "ft_made" -> 1
ShotMade(type) == CASE type = "2pt_made" -> "twoPointsMade"
                    [] type = "3pt_made" -> "threePointsMade"
                    [] type = "ft_made" -> "freeThrowsMade"
ShotAttempted(type) == CASE type = "2pt_made" -> "twoPointsAttempted"
                         [] type = "3pt_made" -> "threePointsAttempted"
                         [] type = "ft_made" -> "freeThrowsAttempted"
FieldWorth(field) == CASE field = "twoPointsMade" -> 2
                       [] field = "threePointsMade" -> 3
                       [] field = "freeThrowsMade" -> 1
OtherTeam(tId) == IF tId = homeTeamId THEN awayTeamId ELSE homeTeamId

\* the players of `court` on the team of pId other than pId, and those of the other team
Teammates(court, pId) == {q \in court \ {pId} : TeamOf(q) = TeamOf(pId)}
Opponents(court, pId) == {q \in court : TeamOf(q) # TeamOf(pId)}

\* C2: a made shot (worth w) by an on-court player raises the shooter's made and
\* attempted counters of that type by 1 and the shooter's points by w, gives +w
\* plusMinus to every on-court player of the shooter's team (the shooter once),
\* -w to every on-court opponent, raises the team's score by w and leaves the
\* other team's score alone.
C2_MadeShotEffect ==
    [][\A p \in Roster, t \in MadeTypes :
          (/\ p \in onCourtPlayers
           /\ opLog'.player = p /\ opLog'.field = ShotMade(t)   \* as QuickScore(p, t) leaves them
           /\ QuickScore(p, t)) =>
             LET w == ShotWorth(t) IN
             /\ playerStats'[p][ShotMade(t)] = playerStats[p][ShotMade(t)] + 1
             /\ playerStats'[p][ShotAttempted(t)] = playerStats[p][ShotAttempted(t)] + 1
             /\ playerStats'[p].points = playerStats[p].points + w
             /\ \A q \in onCourtPlayers :
                   playerStats'[q].plusMinus =
                      playerStats[q].plusMinus + (IF TeamOf(q) = TeamOf(p) THEN w ELSE 0 - w)
             /\ teamScore(playerStats', TeamOf(p)) = teamScore(playerStats, TeamOf(p)) + w
             /\ teamScore(playerStats', OtherTeam(TeamOf(p)))
                   = teamScore(playerStats, OtherTeam(TeamOf(p)))
      ]_vars

\* C2 witness: an on-court player has just made a shot with a teammate and an
\* opponent on court
C2_Witness ==
    /\ opLog.phase = "shot"
    /\ opLog.player \in opLog.court
    /\ Teammates(opLog.court, opLog.player) # {}
    /\ Opponents(opLog.court, opLog.player) # {}
    /\ playerStats[opLog.player].plusMinus = opLog.before[opLog.player].plusMinus + 3

\* C5: a confirmed end-game leaves the persisted game finished, with homeScore and
\* awayScore the sums of the in-memory points of the two teams, and every
\* in-memory record in the persisted store.
C5_EndGamePersistsScores ==
    [][HandleEndGame(TRUE) =>
          LET saved == getGameById(state', gameId) IN
          /\ saved.status = "finished"
          /\ saved.homeScore = teamScore(playerStats, game.homeTeamId)
          /\ saved.awayScore = teamScore(playerStats, game.awayTeamId)
          /\ \A q \in DOMAIN playerStats :
                \E i \in 1..Len(state'.playerStats) : state'.playerStats[i] = playerStats[q]
      ]_vars

\* a shot, or an edit of a made counter, by any player
ScoringStep ==
    \/ \E p \in Roster, t \in ShotTypes : QuickScore(p, t)
    \/ \E p \in Roster, f \in MadeFields, i \in Inputs : UpdateStat(p, f, i)
    \/ \E p \in Roster, f \in MadeFields, a \in {-1, 1} : QuickAdd(p, f, a)

\* C8: a shot or an edit of a made counter leaves the plusMinus of every player
\* who is not on court unchanged, whoever shoots or is edited.
C8_OffCourtPlusMinusUnchanged ==
    [][ScoringStep =>
          \A q \in DOMAIN playerStats' :
             q \notin onCourtPlayers =>
                playerStats'[q].plusMinus = getPlayerStat(playerStats, q, TeamOf(q)).plusMinus
      ]_vars

\* what C9 says of an edit that sets made counter f of on-court player p to new
MadeEditEffect(p, f, new) ==
    LET d == (new - playerStats[p][f]) * FieldWorth(f) IN
    /\ playerStats'[p][f] = new
    /\ playerStats'[p].points = 2 * playerStats'[p].twoPointsMade
                                + 3 * playerStats'[p].threePointsMade
                                + playerStats'[p].freeThrowsMade
    /\ \A q \in onCourtPlayers :
          playerStats'[q].plusMinus =
             playerStats[q].plusMinus + (IF TeamOf(q) = TeamOf(p) THEN d ELSE 0 - d)

\* C9: an edit that sets a made counter of an on-court player from old to new
\* (the input clamped at 0) recomputes the player's points and moves plusMinus by
\* d = (new - old) * pointValue for the player and the on-court teammates and by
\* -d for the on-court opponents.
C9_MadeEditEffect ==
    [][\A p \in Roster, f \in MadeFields :
          (/\ p \in onCourtPlayers
           /\ opLog'.player = p /\ opLog'.field = f   \* as an edit of f for p leaves them
          ) =>
             /\ \A i \in Inputs :
                   UpdateStat(p, f, i) =>
                      MadeEditEffect(p, f, IF i.nan \/ i.n < 0 THEN 0 ELSE i.n)
             /\ \A a \in {-1, 1} :
                   QuickAdd(p, f, a) =>
                      MadeEditEffect(p, f, IF playerStats[p][f] + a < 0 THEN 0
                                           ELSE playerStats[p][f] + a)
      ]_vars

\* C9 witness: two made two-pointers of an on-court player have just been edited
\* away (d = -4) with a teammate and an opponent on court
C9_Witness ==
    /\ opLog.phase = "edit"
    /\ opLog.field = "twoPointsMade"
    /\ opLog.player \in opLog.court
    /\ \E q \in Teammates(opLog.court, opLog.player) :
          playerStats[q].plusMinus = opLog.before[q].plusMinus - 4
    /\ \E q \in Opponents(opLog.court, opLog.player) :
          playerStats[q].plusMinus = opLog.before[q].plusMinus + 4
    /\ playerStats[opLog.player].plusMinus = opLog.before[opLog.player].plusMinus - 4

\* C10: a made shot followed, with the lineup unchanged, by the edit that takes
\* one off the same made counter leaves every player's points and plusMinus as
\* they were before the shot.
C10_ShotThenDecrementRestores ==
    opLog.phase = "undone" =>
       \A q \in DOMAIN playerStats :
          /\ playerStats[q].points =
                (IF q \in DOMAIN opLog.before THEN opLog.before[q].points ELSE 0)
          /\ playerStats[q].plusMinus =
                (IF q \in DOMAIN opLog.before THEN opLog.before[q].plusMinus ELSE 0)

\* C10 witness: the shot of an on-court player with a teammate and an opponent on
\* court has been taken back
C10_Witness ==
    /\ opLog.phase = "undone"
    /\ opLog.player \in opLog.court
    /\ Teammates(opLog.court, opLog.player) # {}
    /\ Opponents(opLog.court, opLog.player) # {}

\* the attempted counter of any shot type, and the made counter of a made one
TypeAttempted(type) == CASE type \in {"2pt_made", "2pt_miss"} -> "twoPointsAttempted"
                         [] type \in {"3pt_made", "3pt_miss"} -> "threePointsAttempted"
                         [] type \in {"ft_made", "ft_miss"} -> "freeThrowsAttempted"

\* the store after the edits that stand for a shot of p: the attempted counter
\* of the type raised by 1 and then, for a made shot, the made counter raised by 1
StoreAfterEdits(p, type) ==
    LET tId == TeamOf(p)
        att == TypeAttempted(type)
        first == updateStatMap(playerStats, onCourtPlayers, p, tId, att,
                               getPlayerStat(playerStats, p, tId)[att] + 1, nextUuid)
    IN  IF type \in MadeTypes
        THEN updateStatMap(first, onCourtPlayers, p, tId, ShotMade(type),
                           first[p][ShotMade(type)] + 1, nextUuid + 1)
        ELSE first

\* C18: a shot recorded by the quick-action button leaves the same store (every
\* field of every record, plusMinus included) as the edits that raise the
\* attempted counter of the type by 1 and, for a made shot, the made counter by 1.
C18_ShotEqualsEdits ==
    [][\A p \in Roster, t \in ShotTypes :
          (/\ opLog'.player = p /\ opLog'.phase \in {"shot", "miss"}   \* as QuickScore(p, t) leaves them
           /\ QuickScore(p, t)) =>
             playerStats' = StoreAfterEdits(p, t)
      ]_vars

\* C18 witness: a three-pointer has just been made by a player who had scored,
\* with a teammate and an opponent on court
C18_Witness ==
    /\ opLog.phase = "shot"
    /\ opLog.field = "threePointsMade"
    /\ opLog.player \in onCourtPlayers
    /\ playerStats[opLog.player].points > 3
    /\ Teammates(onCourtPlayers, opLog.player) # {}
    /\ Opponents(onCourtPlayers, opLog.player) # {}

-----------------------------------------------------------------------------
(* Properties verified under SpecFields *)

\* every record of the view and of the persisted store
AllRecords ==
    {playerStats[q] : q \in DOMAIN playerStats}
       \cup {state.playerStats[i] : i \in 1..Len(state.playerStats)}

\* C1: in every state every record has
\* points = 2 * twoPointsMade + 3 * threePointsMade + freeThrowsMade.
C1_PointsFormula ==
    \A r \in AllRecords :
       r.points = 2 * r.twoPointsMade + 3 * r.threePointsMade + r.freeThrowsMade

\* C1 witness: after a made three-pointer, an edit of the two-pointers made has
\* brought a player to 5 points
C1_Witness ==
    /\ opLog.phase = "edit"
    /\ opLog.field = "twoPointsMade"
    /\ playerStats[opLog.player].threePointsMade = 1
    /\ playerStats[opLog.player].points = 5

\* C6: every counter of every record other than plusMinus is at least 0, and an
\* edit that asks for a value below zero stores 0.
C6_CountersNonNegative ==
    /\ \A r \in AllRecords : \A f \in CounterFields : r[f] >= 0
    /\ (opLog.phase = "edit" /\ opLog.value < 0) =>
          playerStats[opLog.player][opLog.field] = 0

\* C6 witness: ten seconds of playing time were added and a minute taken off
C6_Witness ==
    /\ opLog.phase = "edit"
    /\ opLog.field = "minutes"
    /\ opLog.value = 0 - 50
    /\ playerStats[opLog.player].minutes = 0

-----------------------------------------------------------------------------
(* Properties verified under SpecLineup *)

OnCourtOfTeam(tId) == {q \in onCourtPlayers : TeamOf(q) = tId}

\* C3: in every state each of the two teams has at most 5 players on court.
C3_AtMostFiveOnCourt ==
    /\ Cardinality(OnCourtOfTeam(homeTeamId)) <= 5
    /\ Cardinality(OnCourtOfTeam(awayTeamId)) <= 5

\* C3 witness: a sub-in has just brought the home team to 5 on court
C3_Witness ==
    /\ opLog.phase = "subIn"
    /\ TeamOf(opLog.player) = homeTeamId
    /\ Cardinality(OnCourtOfTeam(homeTeamId)) = 5

\* C4: a sub-in for a player whose team has 5 on court changes nothing: not the
\* on-court set, the in-memory store (no record for the player), the dirty
\* flag, the clock or the persisted store.
C4_RejectedSubInChangesNothing ==
    [][\A p \in Roster :
          (/\ TogglePlayerOnCourt(p)
           /\ p \notin onCourtPlayers
           /\ Cardinality(OnCourtOfTeam(TeamOf(p))) = 5)
          => /\ onCourtPlayers' = onCourtPlayers
             /\ playerStats' = playerStats
             /\ hasChanges' = hasChanges
             /\ timerVars' = timerVars
             /\ state' = state
      ]_vars

\* C4 witness: a sixth home player without a record has just been turned away
C4_Witness ==
    /\ opLog.phase = "rejected"
    /\ opLog.player \notin onCourtPlayers
    /\ opLog.player \notin DOMAIN playerStats
    /\ Cardinality(OnCourtOfTeam(homeTeamId)) = 5

------------------------------------------------------------------------\* C25: every player on court has a record in the in-memory store.  A sub-in
\* that is accepted leaves the record of a player that has one as it is, and
\* gives a player that has none a zeroed record under an id no other record
\* has; no operation of the view takes a record away.
C25_OnCourtPlayersHaveRecords ==
    /\ [](onCourtPlayers \subseteq DOMAIN playerStats)
    /\ [][/\ DOMAIN playerStats \subseteq DOMAIN playerStats'
           /\ opLog'.phase = "subIn" =>
                 LET p == opLog'.player IN
                 IF p \in DOMAIN playerStats
                 THEN playerStats' = playerStats
                 ELSE /\ DOMAIN playerStats' = DOMAIN playerStats \cup {p}
                      /\ \A q \in DOMAIN playerStats : playerStats'[q] = playerStats[q]
                      /\ [playerStats'[p] EXCEPT !.id = 0]
                            = createEmptyPlayerStats(gameId, p, TeamOf(p))
                      /\ playerStats'[p].id # 0
                      /\ \A q \in DOMAIN playerStats : playerStats'[p].id # playerStats[q].id
                      /\ \A k \in 1..Len(state.playerStats) :
                            playerStats'[p].id # state.playerStats[k].id
          ]_vars

\* a player who scored from the bench has been subbed in: the record is kept
C25_Witness ==
    /\ opLog.phase = "subIn"
    /\ opLog.player \in onCourtPlayers
    /\ playerStats[opLog.player].points = 2
    /\ \E q \in onCourtPlayers : playerStats[q].points = 0 /\ playerStats[q].id # 0

-----
(* Properties verified under SpecQuarter *)

QuarterSeconds == InitialMinutes * SecondsPerMinute

\* minutes of a player when the clock was started (0 without a record then)
MinutesAtStart(q) == IF q \in DOMAIN runLog.minutes0 THEN runLog.minutes0[q] ELSE 0

-----------------------------------------------------------------------------
(* Properties verified under SpecFrame *)

MissTypes == {"2pt_miss", "3pt_miss", "ft_miss"}
MissAttempted(type) == CASE type = "2pt_miss" -> "twoPointsAttempted"
                         [] type = "3pt_miss" -> "threePointsAttempted"
                         [] type = "ft_miss" -> "freeThrowsAttempted"
NonScoringFields == (AttemptedFields \cup OtherFields) \cup {"minutes"}

\* the step leaves every record but that of p as it was, and in the record of p
\* (the zeroed record when p had none) changes field f alone; the record keeps
\* its id, or gets one if it had none
OnlyFieldChanged(p, f) ==
    LET old == getPlayerStat(playerStats, p, TeamOf(p)) IN
    /\ DOMAIN playerStats' = DOMAIN playerStats \cup {p}
    /\ \A q \in DOMAIN playerStats \ {p} : playerStats'[q] = playerStats[q]
    /\ \A g \in DOMAIN old \ {f, "id"} : playerStats'[p][g] = old[g]
    /\ old.id # 0 => playerStats'[p].id = old.id

ClampedAtZero(n) == IF n < 0 THEN 0 ELSE n

\* C11: a missed shot adds 1 to the shooter's attempted counter of that type and
\* changes nothing else; an edit or quick-add of a rebound, assist, steal,
\* block, turnover, foul, attempted or minutes field sets that one field of that
\* one record (clamped at 0) and changes nothing else: no points, no plusMinus,
\* no other field, no other record.
C11_NonScoringFrame ==
    [][\A p \in Roster :
          opLog'.player = p =>      \* as every shot and edit for p leaves it
             LET rec == getPlayerStat(playerStats, p, TeamOf(p)) IN
             /\ \A t \in MissTypes :
                   (opLog'.phase = "miss" /\ opLog'.field = MissAttempted(t)
                    /\ QuickScore(p, t)) =>
                      /\ OnlyFieldChanged(p, MissAttempted(t))
                      /\ playerStats'[p][MissAttempted(t)] = rec[MissAttempted(t)] + 1
             /\ \A f \in NonScoringFields :
                   (opLog'.phase = "edit" /\ opLog'.field = f) =>
                      /\ \A i \in Inputs :
                            (opLog'.value = (IF i.nan THEN 0 ELSE i.n)
                             /\ UpdateStat(p, f, i)) =>
                               /\ OnlyFieldChanged(p, f)
                               /\ playerStats'[p][f] =
                                     ClampedAtZero(IF i.nan THEN 0 ELSE i.n)
                      /\ \A a \in {-60, -10, -1, 1, 10, 60} :
                            (opLog'.value = rec[f] + a /\ QuickAdd(p, f, a)) =>
                               /\ OnlyFieldChanged(p, f)
                               /\ playerStats'[p][f] = ClampedAtZero(rec[f] + a)
                      /\ (f = "minutes" /\ \E i \in Inputs :
                                              UpdateMinutes(p, i) \/ UpdateSeconds(p, i)) =>
                               /\ OnlyFieldChanged(p, f)
                               /\ playerStats'[p][f] >= 0
      ]_vars

\* C11 witness: with an opponent on court, a player who has scored has just
\* missed a three-pointer
C11_Witness ==
    /\ opLog.phase = "miss"
    /\ opLog.field = "threePointsAttempted"
    /\ playerStats[opLog.player].points > 0
    /\ playerStats[opLog.player].threePointsAttempted = 1
    /\ \E q \in onCourtPlayers : TeamOf(q) # TeamOf(opLog.player)

-----------------------------------------------------------------------------
(* Properties verified under SpecSession *)

Statuses == {"pending", "ongoing", "finished"}
StoredGame(st) == getGameById(st, gameId)
StoredStats(st) == {st.playerStats[i] : i \in 1..Len(st.playerStats)}

\* C12: while the game is pending no step changes a record, the on-court set or
\* the clock; once start has made the game ongoing the same actions take effect.
C12_PendingIsInert ==
    [][StoredGame(state).status = "pending" =>
          /\ playerStats' = playerStats
          /\ onCourtPlayers' = onCourtPlayers
          /\ timerVars' = timerVars
      ]_vars

\* C12 witness: the game that was created pending (nothing saved yet) has been
\* started, and a shot has then been recorded
C12_Witness ==
    /\ StoredGame(state).status = "ongoing"
    /\ state.playerStats = <<>>
    /\ opLog.phase = "shot"
    /\ playerStats[opLog.player].twoPointsMade = 1

\* C13: the status of the game moves only from pending to ongoing, by start, and
\* from ongoing to finished, by a confirmed end-game; saves and edits of the
\* game's teams, date or location leave it where it is.
C13_StatusMovesForward ==
    [][LET old == StoredGame(state).status
           new == StoredGame(state').status
       IN  /\ new \in Statuses
           /\ \/ new = old
              \/ old = "pending" /\ new = "ongoing" /\ HandleStartGame
              \/ old = "ongoing" /\ new = "finished" /\ HandleEndGame(TRUE)
      ]_vars

\* C13 witness: the finished game has just been edited on the Games page (teams
\* swapped, new date and location) and is still finished
C13_Witness ==
    /\ opLog.phase = "editGame"
    /\ StoredGame(state).status = "finished"
    /\ StoredGame(state).homeTeamId = awayTeamId
    /\ StoredGame(state).date = "d2"

\* sum of the points of the records of team tId, by players
PointsOf(stats, players, tId) ==
    LET RECURSIVE add(_)
        add(S) == IF S = {} THEN 0
                  ELSE LET q == CHOOSE x \in S : TRUE
                       IN  (IF stats[q].teamId = tId THEN stats[q].points ELSE 0)
                           + add(S \ {q})
    IN  add(players)

\* C14: after a manual save every in-memory record is in the store with the
\* same id and the same values, the stored game's homeScore and awayScore are
\* the sums of the in-memory points of its two teams, and the save has changed
\* no in-memory record, not the on-court set, not the status.
C14_SavePersistsEverything ==
    [][HandleSave =>
          /\ \A q \in DOMAIN playerStats :
                \E r \in StoredStats(state') :
                   r.id = playerStats[q].id /\ r = playerStats[q]
          /\ StoredGame(state').homeScore
                = PointsOf(playerStats, DOMAIN playerStats, StoredGame(state).homeTeamId)
          /\ StoredGame(state').awayScore
                = PointsOf(playerStats, DOMAIN playerStats, StoredGame(state).awayTeamId)
          /\ playerStats' = playerStats
          /\ onCourtPlayers' = onCourtPlayers
          /\ StoredGame(state').status = StoredGame(state).status
      ]_vars

\* C14 witness: a save with a loaded record and a new one, two points a side
C14_Witness ==
    /\ opLog.phase = "save"
    /\ Cardinality(DOMAIN playerStats) = 2
    /\ StoredGame(state).homeScore = 2
    /\ StoredGame(state).awayScore = 2

\* C15: with the scoring view open the persisted state changes only on
\* start-game, manual save and end-game: no shot, edit, substitution, clock
\* operation or tick changes it.
C15_StoreChangesOnlyAtCheckpoints ==
    [][(viewOpen /\ viewOpen' /\ state' # state) =>
          \/ HandleStartGame
          \/ HandleSave
          \/ HandleEndGame(TRUE)
      ]_vars

\* C15 witness: a substitution, a shot and a tick later the store still is what
\* the earlier visit saved, while the view holds unsaved changes
C15_Witness ==
    /\ opLog.phase = "tick"
    /\ hasChanges
    /\ state = SavedAppState
    /\ \E q \in onCourtPlayers : playerStats[q].minutes = 1 /\ playerStats[q].points = 4

\* C16: the in-memory store and the persisted store hold at most one record
\* per (game, player), every record has an id, and the id of a record never
\* changes, in memory or in the store.
C16_OneRecordPerPlayer ==
    /\ [](/\ \A q \in DOMAIN playerStats :
                /\ playerStats[q].playerId = q
                /\ playerStats[q].gameId = gameId
                /\ playerStats[q].id # 0
          /\ \A i, j \in 1..Len(state.playerStats) :
                (/\ state.playerStats[i].gameId = state.playerStats[j].gameId
                 /\ state.playerStats[i].playerId = state.playerStats[j].playerId)
                => i = j)
    /\ [][/\ \A q \in DOMAIN playerStats \cap DOMAIN playerStats' :
                playerStats'[q].id = playerStats[q].id
          /\ \A r \in StoredStats(state), r2 \in StoredStats(state') :
                (r.gameId = r2.gameId /\ r.playerId = r2.playerId) => r2.id = r.id
          /\ \A q \in DOMAIN playerStats', r \in StoredStats(state') :
                (r.gameId = gameId /\ r.playerId = q) => r.id = playerStats'[q].id
      ]_vars

\* C16 witness: the record saved in the earlier visit was loaded, changed and
\* saved again next to a new one; it is still one record with its id
C16_Witness ==
    /\ opLog.phase = "save"
    /\ Len(state.playerStats) = 2
    /\ state.playerStats[1].id = 1
    /\ state.playerStats[1].points = 4

------------------------------------------------------------------------\* C29: whenever the in-memory store of the open view differs from the
\* records the persisted state holds for the game, hasChanges is true; a save
\* leaves the two equal and hasChanges false.
C29_DirtyFlagCoversChanges ==
    /\ []((viewOpen /\ playerStats # initialStatsMap(state, gameId)) => hasChanges)
    /\ [][opLog'.phase = "save" =>
             /\ ~hasChanges'
             /\ playerStats' = initialStatsMap(state', gameId)
          ]_vars

\* the saved record of a player was loaded, the player subbed in, and a tick
\* added a second to it: the only unsaved change is the tick's
C29_Witness ==
    /\ viewOpen /\ hasChanges
    /\ opLog.phase = "tick"
    /\ \E q \in DOMAIN playerStats :
          /\ q \in DOMAIN initialStatsMap(state, gameId)
          /\ playerStats[q] = [initialStatsMap(state, gameId)[q] EXCEPT !.minutes = @ + 1]

-----
(* Properties verified under SpecStore *)

SeqToSet(seq) == {seq[i] : i \in 1..Len(seq)}

\* the sequence has lost exactly the elements of `gone` and kept the others once each
LostExactly(old, new, gone) ==
    /\ SeqToSet(new) = SeqToSet(old) \ gone
    /\ Len(new) = Len(old) - Cardinality({i \in 1..Len(old) : old[i] \in gone})

\* C17: deleteTeam removes the team and exactly its players; deletePlayer the
\* player and exactly the statistics with that playerId; deleteGame the game and
\* exactly the statistics with that gameId; everything else stays as it is.
C17_DeletesCascadeExactly ==
    [][/\ \A t \in StoreTeams :
             DeleteTeam(t) =>
                /\ state'.teams = state.teams \ {t}
                /\ state'.players = state.players \ {q \in state.players : q.teamId = t}
                /\ state'.games = state.games
                /\ state'.playerStats = state.playerStats
       /\ \A p \in {q.id : q \in StorePlayers} :
             DeletePlayer(p) =>
                /\ state'.teams = state.teams
                /\ state'.players = state.players \ {q \in state.players : q.id = p}
                /\ state'.games = state.games
                /\ LostExactly(state.playerStats, state'.playerStats,
                               {r \in SeqToSet(state.playerStats) : r.playerId = p})
       /\ \A g \in {gameId, "g2"} :
             DeleteGame(g) =>
                /\ state'.teams = state.teams
                /\ state'.players = state.players
                /\ LostExactly(state.games, state'.games,
                               {x \in SeqToSet(state.games) : x.id = g})
                /\ LostExactly(state.playerStats, state'.playerStats,
                               {r \in SeqToSet(state.playerStats) : r.gameId = g})
      ]_vars

\* C17 witness: with statistics saved for every slot, the away player with
\* statistics in both games has just been deleted
C17_Witness ==
    /\ opLog.phase = "deletePlayer"
    /\ opLog.player = 11
    /\ Cardinality(state.players) = 3
    /\ Len(state.playerStats) = 3
    /\ Len(state.games) = 2

------------------------------------------------------------------------\* C28: referential integrity of the persisted AppState: every saved record
\* names a player and a game that exist, every player a team that exists.
C28_ReferentialIntegrity ==
    /\ \A k \in 1..Len(state.playerStats) :
          /\ \E pl \in state.players : pl.id = state.playerStats[k].playerId
          /\ \E i \in 1..Len(state.games) : state.games[i].id = state.playerStats[k].gameId
    /\ \A pl \in state.players : pl.teamId \in state.teams

-----
(* Properties verified under SpecClock *)

\* C19: the tick that brings timeLeft to 0 stops the clock and ends the
\* interval; no tick comes without an interval, and only a start that finds the
\* clock stopped makes one; reaching 0 leaves currentQuarter alone; every tick,
\* the one reaching 0 included, runs the callback once: one second for each
\* on-court player, nothing for anybody else.
C19_ZeroStopsTheClock ==
    [][/\ Tick =>
             /\ intervalRef
             /\ timeLeft' = 0 => (~isRunning' /\ ~intervalRef')
             /\ currentQuarter' = currentQuarter
             /\ DOMAIN playerStats' = DOMAIN playerStats
             /\ \A q \in DOMAIN playerStats :
                   playerStats'[q] =
                      IF q \in onCourtPlayers
                      THEN [playerStats[q] EXCEPT !.minutes = playerStats[q].minutes + 1]
                      ELSE playerStats[q]
       /\ (~intervalRef /\ intervalRef') => (Start /\ ~isRunning)
      ]_vars

\* C19 witness: the last tick of the first quarter has stopped the clock, and
\* the on-court player has the whole quarter as playing time
C19_Witness ==
    /\ opLog.phase = "tick"
    /\ timeLeft = 0
    /\ ~isRunning /\ ~intervalRef
    /\ currentQuarter = 1
    /\ \E q \in onCourtPlayers : playerStats[q].minutes = InitialMinutes * SecondsPerMinute

\* C20: whenever the clock is running with time left on it, a one-second
\* interval is alive, however running was entered.
C20_RunningClockTicks ==
    (isRunning /\ timeLeft > 0) => intervalRef

\* C21: at most one interval timer is alive, and it is the one intervalRef
\* holds; none is alive while the clock is stopped or while the game view is
\* not mounted; so a tick is only ever delivered to a running clock: after a
\* pause, a reset, a nextQuarter or the stop at 0:00 no tick changes timeLeft
\* or the minutes before the next start.
C21_OneIntervalOnlyWhileRunning ==
    /\ [](/\ liveIntervals \in {0, 1}
          /\ (liveIntervals = 1) = intervalRef
          /\ ~isRunning => liveIntervals = 0
          /\ ~viewOpen => liveIntervals = 0)
    /\ [][Tick => (isRunning /\ viewOpen)]_vars

\* the clock ran, was paused and reset: the quarter is full again, the minutes
\* played stay, no timer is left
C21_Witness ==
    /\ viewOpen /\ ~isRunning /\ liveIntervals = 0
    /\ opLog.phase = "clock"
    /\ timeLeft = quarterMinutes * SecondsPerMinute
    /\ \E q \in DOMAIN playerStats : playerStats[q].minutes > 0

C23_QuarterStaysInRange ==
    /\ [](currentQuarter \in 1..LastQuarter)
    /\ [][/\ NextQuarter =>
              IF currentQuarter < LastQuarter
              THEN /\ currentQuarter' = currentQuarter + 1
                   /\ timeLeft' = quarterMinutes * SecondsPerMinute
                   /\ ~isRunning' /\ liveIntervals' = 0
                   /\ quarterMinutes' = quarterMinutes
              ELSE progVars' = progVars
           /\ \A d \in {0 - 1, 1} :
                StepCurrentQuarter(d) =>
                   /\ currentQuarter' = currentQuarter + d
                   /\ currentQuarter' \in 1..LastQuarter
                   /\ timeLeft' = timeLeft
          ]_vars

\* nextQuarter was pressed in the fourth quarter
C23_Witness ==
    /\ currentQuarter = LastQuarter
    /\ opLog.field = "nextQuarter" /\ opLog.value = LastQuarter
    /\ ~isRunning
    /\ timeLeft = quarterMinutes * SecondsPerMinute

\* C24: the time left is never negative; adjustTime(delta), on a running or a
\* stopped clock, sets it to max(0, timeLeft + delta) and changes nothing else
\* of the clock: not whether it runs, not the quarter, not the quarter length.
C24_TimeLeftNeverNegative ==
    /\ [](timeLeft >= 0)
    /\ [][\A d \in {0 - 10, 10} :
             AdjustTime(d) =>
                /\ timeLeft' = (IF timeLeft + d < 0 THEN 0 ELSE timeLeft + d)
                /\ isRunning' = isRunning
                /\ currentQuarter' = currentQuarter
                /\ quarterMinutes' = quarterMinutes
          ]_vars

\* ten seconds were taken off a running clock that had fewer left
C24_Witness ==
    /\ opLog.field = "adjustTime" /\ opLog.value = 0 - 10
    /\ isRunning
    /\ timeLeft = 0

\* C26: playing time is accrued only for time that elapsed on the clock: a
\* tick that adds a second to a player's minutes takes a second off timeLeft.
C26_MinutesOnlyForElapsedTime ==
    [][(/\ opLog'.phase = "tick"
        /\ \E q \in DOMAIN playerStats : playerStats'[q].minutes > playerStats[q].minutes)
       => timeLeft' = timeLeft - 1
      ]_vars

-----------------------------------------------------------------------------
(* Properties verified under SpecRender *)

\* C27: no tick is lost to a shot or an edit handled around it: once every
\* delivered tick is rendered, each player on court since the clock was
\* started has one second of minutes for every tick delivered since.
C27_NoTickIsLost ==
    (runLog.live /\ pendingTicks = <<>>) =>
        \A q \in runLog.court \cap DOMAIN runLog.minutes0 :
            playerStats[q].minutes = runLog.minutes0[q] + runLog.n

-----------------------------------------------------------------------------
(* Properties verified under SpecCountdown *)

\* C30: a clock that runs with time left, and is not paused, reset, advanced
\* or adjusted, reaches 0:00 and is then stopped; a clock stopped at 0:00
\* stays so until the user presses a timer control.
C30_CountdownEnds ==
    /\ (isRunning /\ timeLeft > 0) ~> (timeLeft = 0 /\ ~isRunning)
    /\ [][(timeLeft = 0 /\ ~isRunning /\ timerVars' # timerVars) => opLog'.phase = "clock"]_vars

\* the clock was started at 12:00 and has counted the whole quarter down
C30_Witness ==
    /\ timeLeft = 0 /\ ~isRunning /\ liveIntervals = 0
    /\ opLog.phase = "tick"
    /\ runLog.live /\ runLog.t0 = InitialMinutes * SecondsPerMinute /\ runLog.n = runLog.t0

====
